---- MODULE Spec2Model ----
(***************************************************************************)
(* Model of the SAP BusinessObjects MCP bridge: the REST client            *)
(* (src/sap_client.py: login, logout, get_tables, get_columns, run_query)  *)
(* and the tool layer (src/app.py: lifespan, to_csv_string, the three      *)
(* tools).                                                                 *)
(*                                                                         *)
(* Python strings that the code takes apart (the query text, table and     *)
(* column names) are sequences of one-character strings.  Opaque values    *)
(* (tokens, ids) are atoms.  Python's None is the atom None.               *)
(***************************************************************************)
EXTENDS Integers, Sequences, FiniteSets, TLC

VARIABLES logon_token, hdr, pc, inp, remote, wire, out

vars == <<logon_token, hdr, pc, inp, remote, wire, out>>

(***************************************************************************)
(* Bounds of the model.                                                    *)
(***************************************************************************)
MaxCols == 2

MaxFroms == 2

MaxUniverses == 2

MaxNodes == 1

MaxKids == 1

MaxDepth == 2

MaxRows == 2

MaxWire == 3

MaxRecords == 2

(***************************************************************************)
(* Python values.                                                          *)
(***************************************************************************)
None == "None"

\* Python truth of an atom: None, the empty string and the number zero
\* (written "0") are false.
Truthy(v) == v \notin {None, "", "0"}

Min(a, b) == IF a < b THEN a ELSE b

\* All sequences over S of length at most n.
SeqsUpTo(S, n) == UNION {[1..k -> S] : k \in 0..n}

(***************************************************************************)
(* String operations used by run_query's parser.                           *)
(***************************************************************************)
LowerToUpper ==
    ("a" :> "A") @@ ("b" :> "B") @@ ("c" :> "C") @@ ("d" :> "D") @@
    ("e" :> "E") @@ ("f" :> "F") @@ ("l" :> "L") @@ ("m" :> "M") @@
    ("o" :> "O") @@ ("r" :> "R") @@ ("s" :> "S") @@ ("t" :> "T") @@
    ("u" :> "U")

\* str.upper()
Upper(s) ==
    [i \in 1..Len(s) |->
        IF s[i] \in DOMAIN LowerToUpper THEN LowerToUpper[s[i]] ELSE s[i]]

\* Positions at which sep occurs in s.
Occurrences(s, sep) ==
    {i \in 1..(Len(s) - Len(sep) + 1) : SubSeq(s, i, i + Len(sep) - 1) = sep}

FirstOccurrence(s, sep) ==
    CHOOSE i \in Occurrences(s, sep) : \A j \in Occurrences(s, sep) : i <= j

RECURSIVE Split(_, _)
\* str.split(sep): left to right, occurrences do not overlap.
Split(s, sep) ==
    IF Occurrences(s, sep) = {}
    THEN <<s>>
    ELSE LET i == FirstOccurrence(s, sep)
         IN  <<SubSeq(s, 1, i - 1)>>
                 \o Split(SubSeq(s, i + Len(sep), Len(s)), sep)

RECURSIVE Remove(_, _)
\* str.replace(old, ""): every occurrence, left to right.
Remove(s, old) ==
    IF Occurrences(s, old) = {}
    THEN s
    ELSE LET i == FirstOccurrence(s, old)
         IN  SubSeq(s, 1, i - 1)
                 \o Remove(SubSeq(s, i + Len(old), Len(s)), old)

\* str.strip(chars): drop leading and trailing characters that are in chars.
StripChars(s, chars) ==
    LET keep == {i \in 1..Len(s) : s[i] \notin chars}
    IN  IF keep = {}
        THEN <<>>
        ELSE LET lo == CHOOSE i \in keep : \A j \in keep : i <= j
                 hi == CHOOSE i \in keep : \A j \in keep : j <= i
             IN  SubSeq(s, lo, hi)

Whitespace == {" "}

BracketsQuotes == {"[", "]", "\""}

kwSELECT == <<"S", "E", "L", "E", "C", "T">>

sepFROM == <<" ", "F", "R", "O", "M", " ">>

sepComma == <<",">>

\* An identifier as run_query cleans it: c.strip().strip('[]"')
CleanName(s) == StripChars(StripChars(s, Whitespace), BracketsQuotes)

\* A parser that takes the text before the first FROM and the text after the
\* last one, whatever lies between.
ParseSqlMutLenient(sql) ==
    LET parts == Split(Upper(sql), sepFROM)
    IN  IF Len(parts) < 2
        THEN [ok |-> FALSE, table_name |-> <<>>, selected_columns |-> <<>>]
        ELSE LET columns_str == StripChars(Remove(parts[1], kwSELECT), Whitespace)
                 cs == Split(columns_str, sepComma)
             IN  [ok |-> TRUE,
                  table_name |-> CleanName(parts[Len(parts)]),
                  selected_columns |-> [i \in 1..Len(cs) |-> CleanName(cs[i])]]

\* Step 1 of run_query.  ok = FALSE is the ValueError of the tuple unpacking.
ParseSql(sql) ==
    LET parts == Split(Upper(sql), sepFROM)
    IN  IF Len(parts) # 2
        THEN [ok |-> FALSE, table_name |-> <<>>, selected_columns |-> <<>>]
        ELSE LET columns_str == StripChars(Remove(parts[1], kwSELECT), Whitespace)
                 cs == Split(columns_str, sepComma)
             IN  [ok |-> TRUE,
                  table_name |-> CleanName(parts[2]),
                  selected_columns |-> [i \in 1..Len(cs) |-> CleanName(cs[i])]]

(***************************************************************************)
(* Python dicts are sequences of <<key, value>> pairs in insertion order,  *)
(* keys unique.                                                            *)
(***************************************************************************)
Keys(d) == {d[i][1] : i \in 1..Len(d)}

KeyList(d) == [i \in 1..Len(d) |-> d[i][1]]

Get(d, k) == LET i == CHOOSE j \in 1..Len(d) : d[j][1] = k IN d[i][2]

DictSet(d, k, v) ==
    IF k \in Keys(d)
    THEN [i \in 1..Len(d) |-> IF d[i][1] = k THEN <<k, v>> ELSE d[i]]
    ELSE Append(d, <<k, v>>)

RECURSIVE ZipDictUpTo(_, _, _)
ZipDictUpTo(header, row, n) ==
    IF n = 0 THEN <<>>
    ELSE DictSet(ZipDictUpTo(header, row, n - 1), header[n], row[n])

\* dict(zip(header, row)): zip stops at the shorter of the two.
ZipDict(header, row) == ZipDictUpTo(header, row, Min(Len(header), Len(row)))

(***************************************************************************)
(* Results of a call: a returned value or a raised exception.              *)
(***************************************************************************)
Return(v) == [kind |-> "return", val |-> v]

Raise(e, m, a) == [kind |-> "raise", exc |-> e, msg |-> m, arg |-> a]

NotCalled == [kind |-> "none"]

MsgConnect == "Could not connect to SAP BO server"

MsgNoToken == "Failed to retrieve logon token from SAP BO server."

MsgFormat == "Unsupported SQL format. Please use 'SELECT col1, col2 FROM table'."

MsgNotFound == "Universe '{table_name}' not found."

MsgFields == "dict contains fields not in fieldnames"

\* One request on the wire: what was asked, about which remote object, and
\* the X-SAP-LogonToken header the session attached (None: no such header).
Req(r, a) == [req |-> r, arg |-> a, tok |-> hdr]

\* The same, for a header value other than the current one.
ReqWith(r, a, h) == [req |-> r, arg |-> a, tok |-> h]

(***************************************************************************)
(* The remote server's answers.  net is what the transport did:            *)
(* "transport" (the request raised a RequestException), "http" (a non-2xx  *)
(* status, raise_for_status raises HTTPError) or "ok".  shape is what the  *)
(* body is: "badjson" (response.json() raises), "notdict" (JSON of a shape *)
(* on which .get raises AttributeError), or a shape the code walks.        *)
(***************************************************************************)
Failures ==
    {[net |-> "transport", shape |-> "none"],
     [net |-> "http", shape |-> "none"],
     [net |-> "ok", shape |-> "badjson"],
     [net |-> "ok", shape |-> "notdict"]}

Tokens == {"t1", "t2"}

\* A login answer: the token header htok (None: absent), and the body, read
\* only when the header gave no token ("unread" otherwise).
LoginResponses(toks) ==
    {[net |-> "transport", shape |-> "none"], [net |-> "http", shape |-> "none"]}
    \cup [net : {"ok"}, htok : toks, shape : {"unread"}]
    \cup [net : {"ok"}, htok : {None, ""}, shape : {"badjson", "notdict"}]
    \cup [net : {"ok"}, htok : {None, ""}, shape : {"dict"},
          logonToken : {None, ""} \cup toks]

LogoutResponses == {"transport", "answered"}

(***************************************************************************)
(* SapApiClient.login and logout, from the token state (tok, h): the new   *)
(* token state, the requests issued and the outcome.                       *)
(***************************************************************************)
login(tok, h, resp) ==
    LET reqs == <<ReqWith("login", "", h)>>
    IN  IF resp.net # "ok"
        THEN [logon_token |-> tok, hdr |-> h, reqs |-> reqs,
              out |-> Raise("ConnectionError", MsgConnect, None)]
        ELSE IF Truthy(resp.htok)
        THEN [logon_token |-> resp.htok, hdr |-> resp.htok, reqs |-> reqs,
              out |-> Return(None)]
        ELSE IF resp.shape = "badjson"
        THEN [logon_token |-> resp.htok, hdr |-> h, reqs |-> reqs,
              out |-> Raise("ConnectionError", MsgConnect, None)]
        ELSE IF resp.shape = "notdict"
        THEN [logon_token |-> resp.htok, hdr |-> h, reqs |-> reqs,
              out |-> Raise("AttributeError", "get", None)]
        ELSE IF Truthy(resp.logonToken)
        THEN [logon_token |-> resp.logonToken, hdr |-> resp.logonToken,
              reqs |-> reqs, out |-> Return(None)]
        ELSE [logon_token |-> resp.logonToken, hdr |-> h, reqs |-> reqs,
              out |-> Raise("ConnectionError", MsgNoToken, None)]

\* The early return leaves the session headers alone; otherwise the POST is
\* sent with the header still attached, its failure is swallowed, and the
\* finally clause clears the token and the header.
logout(tok, h, resp) ==
    IF ~Truthy(tok)
    THEN [logon_token |-> tok, hdr |-> h, reqs |-> <<>>, out |-> Return(None)]
    ELSE [logon_token |-> None, hdr |-> None,
          reqs |-> <<ReqWith("logout", "", h)>>, out |-> Return(None)]

(***************************************************************************)
(* The catalog: the listing of universes and a universe's node tree.       *)
(***************************************************************************)
NameT == <<"T">>

NameU == <<"U">>

\* A source descriptor of the listing.  name <<>> stands for a missing or
\* empty name, id None for a missing or null id.
NonDictEntry == [dict |-> FALSE, name |-> <<>>, id |-> None]

Entries ==
    [dict : {TRUE}, name : {<<>>, NameT, NameU}, id : {None, "0", "u1"}]
    \cup {NonDictEntry}

\* Listing responses: the failures, a body without the "universes" key, a
\* single source object in place of the collection, or a collection.
Listings(E, n) ==
    Failures
    \cup {[net |-> "ok", shape |-> "nokey"]}
    \cup [net : {"ok"}, shape : {"single"}, items : {<<e>> : e \in E}]
    \cup [net : {"ok"}, shape : {"list"}, items : SeqsUpTo(E, n)]

CatalogListings == Listings(Entries, MaxUniverses)

\* The listings offered to run_query: a failure, and the table T with a
\* usable and with an unusable id.
QueryListings ==
    {[net |-> "transport", shape |-> "none"],
     [net |-> "ok", shape |-> "list",
      items |-> <<[dict |-> TRUE, name |-> NameT, id |-> "u1"]>>],
     [net |-> "ok", shape |-> "list",
      items |-> <<[dict |-> TRUE, name |-> NameT, id |-> "0"]>>]}

\* SapApiClient.get_tables: never raises; [] on any failure.
get_tables(resp) ==
    IF resp.shape \notin {"single", "list"}
    THEN <<>>
    ELSE IF \E i \in 1..Len(resp.items) : ~resp.items[i].dict
    THEN <<>>
    ELSE LET named == SelectSeq(resp.items, LAMBDA u : u.name # <<>>)
         IN  [i \in 1..Len(named) |->
                 << <<"table_name", named[i].name>>, <<"id", named[i].id>> >>]

\* next((u["id"] for u in universes if u["table_name"] == table_name), None)
LookupId(universes, table_name) ==
    LET hits == {i \in 1..Len(universes) : Get(universes[i], "table_name") = table_name}
    IN  IF hits = {} THEN None
        ELSE Get(universes[CHOOSE i \in hits : \A j \in hits : i <= j], "id")

TechTypes == {"Dimension", "Folder"}

ColumnTypes == {"Dimension", "Measure", "Attribute"}

RECURSIVE Nodes(_)
\* Nodes of the metadata tree of depth at most d.  dataType None: absent.
Nodes(d) ==
    IF d = 0 THEN {}
    ELSE [techType : TechTypes, name : {<<"A">>},
          dataType : {None, "numeric"}, kids : SeqsUpTo(Nodes(d - 1), MaxKids)]

\* Metadata responses: failures, a body without "nodes", a body whose node
\* collection is null, or a tree.
Metas(d, n) ==
    Failures
    \cup {[net |-> "ok", shape |-> "nokey"], [net |-> "ok", shape |-> "nullnode"]}
    \cup [net : {"ok"}, shape : {"tree"}, nodes : SeqsUpTo(Nodes(d), n)]

CatalogMetas == Metas(MaxDepth, MaxNodes)

\* The metadata answers offered to run_query.
QueryMetas ==
    {[net |-> "http", shape |-> "none"],
     [net |-> "ok", shape |-> "nullnode"],
     [net |-> "ok", shape |-> "tree",
      nodes |-> <<[techType |-> "Dimension", name |-> <<"A">>,
                   dataType |-> None, kids |-> <<>>]>>]}

ColumnOf(item) ==
    << <<"column_name", item.name>>,
       <<"data_type", IF item.dataType = None THEN "string" ELSE item.dataType>>,
       <<"description", "">> >>

RECURSIVE extract_items(_)
\* Depth-first: a node is emitted if its type is a column type, and its
\* children are walked whether or not it was emitted.
extract_items(nodes) ==
    IF nodes = <<>> THEN <<>>
    ELSE LET item == Head(nodes)
         IN  (IF item.techType \in ColumnTypes THEN <<ColumnOf(item)>> ELSE <<>>)
             \o extract_items(item.kids)
             \o extract_items(Tail(nodes))

\* SapApiClient.get_columns: out is the result, reqs the requests issued
\* (as kind and argument) in order.
get_columns(table_name, lresp, mresp) ==
    LET universe_id == LookupId(get_tables(lresp), table_name)
    IN  IF ~Truthy(universe_id)
        THEN [out |-> Raise("ValueError", MsgNotFound, table_name),
              reqs |-> <<Req("list", "")>>]
        ELSE [out |->
                 IF mresp.shape = "tree" THEN Return(extract_items(mresp.nodes))
                 ELSE IF mresp.shape = "nullnode"
                      THEN Raise("TypeError", "not iterable", None)
                 ELSE Return(<<>>),
              reqs |-> <<Req("list", ""), Req("meta", universe_id)>>]

(***************************************************************************)
(* to_csv_string.  The CSV text is the sequence of its lines, a line the   *)
(* sequence of its cells; the empty text is <<>>.                          *)
(***************************************************************************)
Blank == ""

\* csv.DictWriter: a row with a key outside fieldnames raises ValueError.
WrongFields(rowdict, fieldnames) == Keys(rowdict) \ fieldnames

\* A row as written: rowdict.get(key, restval) for each key of the header.
RowCells(rowdict, header) ==
    [i \in 1..Len(header) |->
        IF header[i] \in Keys(rowdict) THEN Get(rowdict, header[i]) ELSE Blank]

\* A serializer that also rejects a record that lacks a key of the header.
to_csv_stringMutStrict(data) ==
    IF data = <<>>
    THEN Return(<<>>)
    ELSE LET header == KeyList(data[1])
         IN  IF \E i \in 1..Len(data) : Keys(data[i]) # Keys(data[1])
             THEN Raise("ValueError", MsgFields, None)
             ELSE Return(<<header>>
                     \o [i \in 1..Len(data) |-> RowCells(data[i], header)])

to_csv_string(data) ==
    IF data = <<>>
    THEN Return(<<>>)
    ELSE LET header == KeyList(data[1])
         IN  IF \E i \in 1..Len(data) : WrongFields(data[i], Keys(data[1])) # {}
             THEN Raise("ValueError", MsgFields, None)
             ELSE Return(<<header>>
                     \o [i \in 1..Len(data) |-> RowCells(data[i], header)])

\* The tools turn a ValueError into the text "Error: <message>".
ErrorText(e) == [text |-> "Error: ", msg |-> e.msg, arg |-> e.arg]

CsvText(lines) == [text |-> "csv", lines |-> lines]

\* try: return to_csv_string(<result>) except ValueError as e: return "Error: ..."
ToolText(res) ==
    IF res.kind = "raise"
    THEN IF res.exc = "ValueError" THEN Return(ErrorText(res)) ELSE res
    ELSE LET csv == to_csv_string(res.val)
         IN  IF csv.kind = "raise" THEN Return(ErrorText(csv))
             ELSE Return(CsvText(csv.val))

(***************************************************************************)
(* run_query: the document workflow.                                       *)
(***************************************************************************)
CreateResponses ==
    Failures \cup [net : {"ok"}, shape : {"dict"}, id : {None, "", "d1"}]

\* Row i of a flow is <<10*i + 1, 10*i + 2, ...>>, so that every cell is
\* recognisable; lens gives the length of each row, at most the number of
\* columns a query can ask for.
RowsOf(lens) == [i \in 1..Len(lens) |-> [j \in 1..lens[i] |-> 10 * i + j]]

FetchResponses ==
    Failures
    \cup {[net |-> "ok", shape |-> "nokey"]}
    \cup [net : {"ok"}, shape : {"rows"},
          rows : {RowsOf(lens) : lens \in SeqsUpTo(1..MaxCols, MaxRows)}]

DeleteResponses ==
    {[net |-> "transport", shape |-> "none"], [net |-> "http", shape |-> "none"],
     [net |-> "ok", shape |-> "none"]}

NoAnswer == [net |-> "none", shape |-> "none"]

\* The k-th answer of the remote server during one call.
Answer(script, k) == IF k <= Len(script) THEN script[k] ELSE NoAnswer

CreateStepMutNoIdCheck(resp) ==
    [ok |-> resp.shape = "dict",
     document_id |-> IF resp.shape = "dict" THEN resp.id ELSE None]

\* The POST of the document: ok iff a document id came back.
CreateStep(resp) ==
    [ok |-> resp.shape = "dict" /\ Truthy(resp.id),
     document_id |-> IF resp.shape = "dict" THEN resp.id ELSE None]

\* [dict(zip(header, row)) for row in rows]
BuildRecords(header, rows) == [i \in 1..Len(rows) |-> ZipDict(header, rows[i])]

NeedMore == [done |-> FALSE]

Done(o, reqs) == [done |-> TRUE, out |-> o, reqs |-> reqs]

\* SapApiClient.get_columns on the answers of script, in the order the
\* requests are issued; NeedMore if the call would issue a request that
\* script does not answer.
get_columns_on(table_name, script) ==
    LET r == get_columns(table_name, Answer(script, 1), Answer(script, 2))
    IN  IF Len(script) < Len(r.reqs) THEN NeedMore ELSE Done(r.out, r.reqs)

\* Steps 3b-3d of run_query, on the answers to create, fetch and delete.
workflow(selected_columns, script) ==
    LET c == CreateStep(Answer(script, 1))
        f == Answer(script, 2)
        d == Answer(script, 3)
        rCreate == Req("create", "")
        rFetch == Req("fetch", c.document_id)
        rDelete == Req("delete", c.document_id)
    IN  IF Len(script) < 1 THEN NeedMore
        ELSE IF ~c.ok THEN Done(Return(<<>>), <<rCreate>>)
        ELSE IF Len(script) < 2 THEN NeedMore
        ELSE IF f.net # "ok" \/ f.shape = "badjson"
        THEN Done(Return(<<>>), <<rCreate, rFetch>>)
        ELSE IF Len(script) < 3 THEN NeedMore
        ELSE IF d.net = "transport" \/ f.shape = "notdict" \/ f.shape = "nokey"
        THEN Done(Return(<<>>), <<rCreate, rFetch, rDelete>>)
        ELSE Done(Return(BuildRecords(selected_columns, f.rows)),
                  <<rCreate, rFetch, rDelete>>)

\* SapApiClient.run_query after step 1, on the parse p and the answers of
\* script.
run_parsed(p, script) ==
        IF ~p.ok THEN Done(Raise("ValueError", MsgFormat, None), <<>>)
        ELSE IF Len(script) < 1 THEN NeedMore
        ELSE IF ~Truthy(LookupId(get_tables(script[1]), p.table_name))
        THEN Done(Raise("ValueError", MsgNotFound, p.table_name),
                  <<Req("list", "")>>)
        ELSE LET cols == get_columns_on(p.table_name, SubSeq(script, 2, Len(script)))
             IN  IF ~cols.done THEN NeedMore
                 ELSE IF cols.out.kind = "raise"
                 THEN Done(cols.out, <<Req("list", "")>> \o cols.reqs)
                 ELSE LET w == workflow(p.selected_columns,
                                        SubSeq(script, 4, Len(script)))
                      IN  IF ~w.done THEN NeedMore
                          ELSE Done(w.out,
                                    <<Req("list", "")>> \o cols.reqs \o w.reqs)

\* SapApiClient.run_query on the answers of script.
run_query(sql, script) == run_parsed(ParseSql(sql), script)

(***************************************************************************)
(* The inputs of the tools and the answers of the remote server.  The      *)
(* variable remote holds the answers that the last client, catalog or      *)
(* query call consumed, in order; wire holds every request issued.         *)
(***************************************************************************)
SelectKws == {<<"s", "e", "l", "e", "c", "t", " ">>}

FromKw == <<" ", "f", "r", "o", "m", " ">>

ColTokens ==
    {<<"a">>, <<"[", "B", "]">>, <<"s", "e", "l", "e", "c", "t", "e", "d">>}

TableTokens == {<<"[", "t", "]">>, <<"U">>}

StartupTokens == {"t1"}

RECURSIVE JoinCols(_)
\* The column clause: the names separated by ", ".
JoinCols(cols) ==
    IF Len(cols) = 1 THEN cols[1]
    ELSE cols[1] \o <<",", " ">> \o JoinCols(Tail(cols))

RECURSIVE JoinFroms(_)
\* One FROM clause for each table of froms.
JoinFroms(froms) ==
    IF froms = <<>> THEN <<>>
    ELSE FromKw \o froms[1] \o JoinFroms(Tail(froms))

\* The query texts: a SELECT keyword, one to MaxCols columns, and up to
\* MaxFroms FROM clauses (none and several make the text malformed).
SqlInputs ==
    {[cols |-> cols, froms |-> froms,
      sql |-> kw \o JoinCols(cols) \o JoinFroms(froms)] :
        kw \in SelectKws,
        cols \in SeqsUpTo(ColTokens, MaxCols) \ {<<>>},
        froms \in SeqsUpTo(TableTokens, MaxFroms)}

\* The answers the k-th request of run_query can get.
QueryAnswers(k) ==
    CASE k \in {1, 2} -> QueryListings
      [] k = 3 -> QueryMetas
      [] k = 4 -> CreateResponses
      [] k = 5 -> FetchResponses
      [] OTHER -> DeleteResponses

RECURSIVE QueryScripts(_, _)
\* The answer sequences that a run_query call consumes after parsing its
\* text to p, extending script.
QueryScripts(p, script) ==
    IF run_parsed(p, script).done THEN {script}
    ELSE UNION {QueryScripts(p, Append(script, r)) :
                    r \in QueryAnswers(Len(script) + 1)}

ColumnsAnswers(k) == IF k = 1 THEN CatalogListings ELSE CatalogMetas

RECURSIVE ColumnsScripts(_, _)
\* The answer sequences that a get_columns(table_name) call consumes.
ColumnsScripts(table_name, script) ==
    IF get_columns_on(table_name, script).done THEN {script}
    ELSE UNION {ColumnsScripts(table_name, Append(script, r)) :
                    r \in ColumnsAnswers(Len(script) + 1)}

TableNames == {NameT, NameU}

(***************************************************************************)
(* The server: lifespan startup, one tool invocation, lifespan shutdown.   *)
(* The handlers share no state but the session, which they only read, so   *)
(* a behaviour follows one invocation.                                      *)
(***************************************************************************)
Init ==
    /\ logon_token = None
    /\ hdr = None
    /\ pc = "new"
    /\ inp = [op |-> "init"]
    /\ remote = <<>>
    /\ wire = <<>>
    /\ out = NotCalled

\* sap_client_lifespan up to the yield: login; if it raises, the finally
\* clause logs out and the server does not start.
Startup ==
    /\ pc = "new"
    /\ \E resp \in LoginResponses(StartupTokens), bye \in LogoutResponses :
        LET l == login(logon_token, hdr, resp)
            o == logout(l.logon_token, l.hdr, bye)
        IN  IF l.out.kind = "return"
            THEN /\ logon_token' = l.logon_token
                 /\ hdr' = l.hdr
                 /\ wire' = wire \o l.reqs
                 /\ pc' = "serving"
                 /\ out' = l.out
            ELSE /\ logon_token' = o.logon_token
                 /\ hdr' = o.hdr
                 /\ wire' = wire \o l.reqs \o o.reqs
                 /\ pc' = "aborted"
                 /\ out' = l.out
    /\ inp' = [op |-> "startup"]
    /\ remote' = <<>>

\* sap_client_lifespan after the yield: the finally clause logs out.
Shutdown ==
    /\ pc \in {"serving", "handled"}
    /\ \E bye \in LogoutResponses :
        LET o == logout(logon_token, hdr, bye)
        IN  /\ logon_token' = o.logon_token
            /\ hdr' = o.hdr
            /\ wire' = wire \o o.reqs
            /\ out' = o.out
    /\ pc' = "stopped"
    /\ inp' = [op |-> "shutdown"]
    /\ remote' = <<>>

\* The get_tables tool.
GetTablesTool ==
    /\ pc = "serving"
    /\ \E resp \in CatalogListings :
        /\ remote' = <<resp>>
        /\ out' = ToolText(Return(get_tables(resp)))
    /\ inp' = [op |-> "get_tables"]
    /\ wire' = Append(wire, Req("list", ""))
    /\ pc' = "handled"
    /\ UNCHANGED <<logon_token, hdr>>

\* The get_columns tool.
GetColumnsTool ==
    /\ pc = "serving"
    /\ \E table \in TableNames :
        \E script \in ColumnsScripts(table, <<>>) :
            LET r == get_columns_on(table, script)
            IN  /\ inp' = [op |-> "get_columns", table |-> table]
                /\ remote' = script
                /\ wire' = wire \o r.reqs
                /\ out' = ToolText(r.out)
    /\ pc' = "handled"
    /\ UNCHANGED <<logon_token, hdr>>

\* The run_query tool.  client records what SapApiClient.run_query did.
RunQueryTool ==
    /\ pc = "serving"
    /\ \E q \in SqlInputs :
        LET p == ParseSql(q.sql)
        IN  \E script \in QueryScripts(p, <<>>) :
            LET r == run_parsed(p, script)
            IN  /\ inp' = [op |-> "run_query", sql |-> q.sql, cols |-> q.cols,
                           froms |-> q.froms, client |-> r.out]
                /\ remote' = script
                /\ wire' = wire \o r.reqs
                /\ out' = ToolText(r.out)
    /\ pc' = "handled"
    /\ UNCHANGED <<logon_token, hdr>>

Next == Startup \/ RunQueryTool \/ Shutdown

Spec == Init /\ [][Next]_vars

NextCatalog == Startup \/ GetTablesTool \/ GetColumnsTool \/ Shutdown

SpecCatalog == Init /\ [][NextCatalog]_vars

(***************************************************************************)
(* The client on its own: login, logout and get_tables in any order, as    *)
(* long as the wire holds fewer than MaxWire requests.                     *)
(***************************************************************************)
ClientLogin ==
    /\ Len(wire) < MaxWire
    /\ \E resp \in LoginResponses(Tokens) :
        LET l == login(logon_token, hdr, resp)
        IN  /\ logon_token' = l.logon_token
            /\ hdr' = l.hdr
            /\ wire' = wire \o l.reqs
            /\ out' = l.out
            /\ remote' = <<resp>>
    /\ inp' = [op |-> "login"]
    /\ UNCHANGED pc

ClientLogout ==
    /\ Len(wire) < MaxWire
    /\ \E bye \in LogoutResponses :
        LET o == logout(logon_token, hdr, bye)
        IN  /\ logon_token' = o.logon_token
            /\ hdr' = o.hdr
            /\ wire' = wire \o o.reqs
            /\ out' = o.out
            /\ remote' = [i \in 1..Len(o.reqs) |-> bye]
    /\ inp' = [op |-> "logout"]
    /\ UNCHANGED pc

ClientGetTables ==
    /\ Len(wire) < MaxWire
    /\ \E resp \in QueryListings :
        /\ remote' = <<resp>>
        /\ out' = Return(get_tables(resp))
    /\ inp' = [op |-> "get_tables"]
    /\ wire' = Append(wire, Req("list", ""))
    /\ UNCHANGED <<logon_token, hdr, pc>>

NextSession == ClientLogin \/ ClientLogout \/ ClientGetTables

SpecSession == Init /\ [][NextSession]_vars

(***************************************************************************)
(* The serializer on its own, on up to MaxRecords records over two keys.   *)
(***************************************************************************)
CsvKeys == {"a", "b"}

CsvValues == {"x", "y"}

\* The dicts over CsvKeys: every order of every subset of the keys.
CsvDicts ==
    {d \in SeqsUpTo(CsvKeys \X CsvValues, Cardinality(CsvKeys)) :
        \A i, j \in 1..Len(d) : i # j => d[i][1] # d[j][1]}

CsvInputs == SeqsUpTo(CsvDicts, MaxRecords)

ToCsv ==
    /\ pc = "new"
    /\ \E data \in CsvInputs :
        /\ inp' = [op |-> "to_csv_string", data |-> data]
        /\ out' = to_csv_string(data)
    /\ pc' = "handled"
    /\ UNCHANGED <<logon_token, hdr, remote, wire>>

SpecCsv == Init /\ [][ToCsv]_vars

(***************************************************************************)
(* Properties.                                                             *)
(***************************************************************************)
RemoteKinds == {"list", "meta", "create", "fetch", "delete"}

\* The positions on the wire of the requests of the given kinds.
Issued(kinds) == {i \in 1..Len(wire) : wire[i].req \in kinds}

\* A remote call that failed: network error or timeout, non-2xx, or a body
\* that is no JSON.
IsFailure(a) == a.net \in {"transport", "http"} \/ a.shape = "badjson"

QueryCalled == inp.op = "run_query"

\* The tool's result is the text "Error: <msg>".
IsErrorText(msg) ==
    out.kind = "return" /\ out.val.text = "Error: " /\ out.val.msg = msg

\* A column name as the caller expects it back: upper-cased, brackets and
\* quotes stripped.
NormalName(c) == StripChars(Upper(c), BracketsQuotes)

\* C1: a query text that, upper-cased, does not split on " FROM " into
\* exactly two parts makes run_query fail with the format ValueError, which
\* the tool renders as "Error: ...", and no remote call is issued.
MalformedQueryFailsWithoutRemoteCall ==
    (QueryCalled /\ Len(Split(Upper(inp.sql), sepFROM)) # 2)
        => /\ inp.client.kind = "raise"
           /\ inp.client.exc = "ValueError"
           /\ inp.client.msg = MsgFormat
           /\ IsErrorText(MsgFormat)
           /\ remote = <<>>
           /\ Issued(RemoteKinds) = {}

MalformedQueryWitness ==
    QueryCalled /\ Len(inp.froms) = 2 /\ IsErrorText(MsgFormat)

\* The create step of the call was answered.
CreateAnswered == QueryCalled /\ Len(remote) >= 4

\* The create step failed: transport error, non-2xx, unparsable or
\* ill-shaped JSON, or a body without a document id.
CreateFailed ==
    /\ CreateAnswered
    /\ \/ remote[4].net \in {"transport", "http"}
       \/ remote[4].shape \in {"badjson", "notdict"}
       \/ remote[4].shape = "dict" /\ remote[4].id \in {None, ""}

\* C2: when the create step fails, run_query returns the empty result set,
\* fetches no flow and attempts no DELETE.
FailedCreateGivesEmptyAndNoDelete ==
    CreateFailed
        => /\ inp.client.kind = "return"
           /\ inp.client.val = <<>>
           /\ Len(remote) = 4
           /\ Issued({"fetch", "delete"}) = {}

FailedCreateWitness ==
    /\ CreateFailed
    /\ remote[4].shape = "dict"
    /\ Issued({"create"}) # {}
    /\ out.kind = "return"

\* C3: whenever the create step returned a document id, a DELETE of that
\* document is issued before run_query returns, whatever the fetch did.
CreatedDocumentIsDeleted ==
    (CreateAnswered /\ remote[4].shape = "dict" /\ remote[4].id \notin {None, ""})
        => \E i \in Issued({"delete"}) : wire[i].arg = remote[4].id

\* The listing answered to get_columns is a well-formed collection that
\* holds a source of the asked name.
ListingNamesTable ==
    /\ inp.op = "get_columns"
    /\ remote[1].shape \in {"single", "list"}
    /\ \A i \in 1..Len(remote[1].items) : remote[1].items[i].dict
    /\ \E i \in 1..Len(remote[1].items) : remote[1].items[i].name = inp.table

\* C4: get_columns fails with "not found" when the name is unresolvable,
\* and never when the listing holds a source of that name, whatever the id
\* of that source and the metadata tree.
NotFoundOnlyWhenUnresolvable ==
    inp.op = "get_columns" => (IsErrorText(MsgNotFound) <=> ~ListingNamesTable)

\* C5: for the get_tables and get_columns tools, the failure of any remote
\* call of the operation (the listing call of get_columns included) gives
\* the empty text, never an "Error: ..." text and never an exception.
RemoteFailureGivesEmptyText ==
    (/\ inp.op \in {"get_tables", "get_columns"}
     /\ \E k \in 1..Len(remote) : IsFailure(remote[k]))
        => /\ out.kind = "return"
           /\ out.val.text = "csv"
           /\ out.val.lines = <<>>

\* The query is well formed, its column names differ, and the whole
\* workflow succeeded with rows as long as the column list.
QuerySucceeded ==
    /\ QueryCalled
    /\ Len(inp.froms) = 1
    /\ Len(remote) = 6
    /\ remote[5].shape = "rows"
    /\ remote[6].net = "ok"
    /\ \A i, j \in 1..Len(inp.cols) :
           i # j => NormalName(inp.cols[i]) # NormalName(inp.cols[j])
    /\ \A r \in 1..Len(remote[5].rows) : Len(remote[5].rows[r]) = Len(inp.cols)

\* C6: a successful "SELECT c1, ..., ck FROM T" returns one record per
\* value-sequence, in flow order, with exactly the keys c1..ck (upper-cased,
\* brackets and quotes stripped) in the requested order, the i-th key
\* mapped to the i-th value.
RecordsCarryRequestedColumns ==
    QuerySucceeded
        => /\ inp.client.kind = "return"
           /\ inp.client.val =
                [r \in 1..Len(remote[5].rows) |->
                    [j \in 1..Len(inp.cols) |->
                        <<NormalName(inp.cols[j]), remote[5].rows[r][j]>>]]

\* C7: logout never raises and always leaves the client without a token
\* and the session without the X-SAP-LogonToken header.
LogoutClearsTokenState ==
    inp.op = "logout"
        => out.kind = "return" /\ ~Truthy(logon_token) /\ hdr = None

\* C8: after any sequence of logins and logouts, the header the session
\* attaches is the client's current token, and there is no header while
\* the client holds no token.
HeaderIsCurrentToken ==
    hdr = (IF Truthy(logon_token) THEN logon_token ELSE None)

CsvCalled == inp.op = "to_csv_string"

\* C9 as stated: for a non-empty sequence the serializer fails exactly when
\* some record's key set differs from the first record's (a missing key as
\* well as an extra one).
SerializerRejectsDifferingKeySets ==
    (CsvCalled /\ inp.data # <<>>)
        => ((\E i \in 1..Len(inp.data) : Keys(inp.data[i]) # Keys(inp.data[1]))
                <=> out.kind = "raise")

\* C9, amended: the empty sequence gives the empty text; a non-empty one
\* fails exactly when some record has a key that the first record lacks;
\* otherwise the text is the header of the first record's keys and one row
\* per record, a key missing from a record rendered blank.
SerializerRejectsOnlyExtraKeys ==
    CsvCalled =>
        LET data == inp.data
        IN  IF data = <<>>
            THEN out.kind = "return" /\ out.val = <<>>
            ELSE IF \E i \in 1..Len(data) : ~(Keys(data[i]) \subseteq Keys(data[1]))
            THEN out.kind = "raise" /\ out.exc = "ValueError"
            ELSE /\ out.kind = "return"
                 /\ Len(out.val) = Len(data) + 1
                 /\ out.val[1] = KeyList(data[1])
                 /\ \A i \in 1..Len(data) :
                        /\ Len(out.val[i + 1]) = Len(data[1])
                        /\ \A j \in 1..Len(data[1]) :
                              out.val[i + 1][j] =
                                  IF data[1][j][1] \in Keys(data[i])
                                  THEN Get(data[i], data[1][j][1])
                                  ELSE ""

MissingKeyRenderedBlankWitness ==
    /\ CsvCalled
    /\ \E i \in 1..Len(inp.data) :
           /\ Keys(inp.data[i]) # Keys(inp.data[1])
           /\ Keys(inp.data[i]) \subseteq Keys(inp.data[1])
    /\ out.kind = "return"
    /\ \E i \in 2..Len(out.val) : \E j \in 1..Len(out.val[i]) : out.val[i][j] = ""

\* C10: when create and fetch succeeded, run_query returns the records
\* built from the fetched rows whether the DELETE succeeds or fails.
DeleteFailureIsNotSurfaced ==
    (QueryCalled /\ Len(remote) = 6 /\ remote[5].shape = "rows")
        => /\ inp.client.kind = "return"
           /\ inp.client.val =
                BuildRecords(ParseSql(inp.sql).selected_columns, remote[5].rows)

====
